---- MODULE Spec2Model ----
(***************************************************************************)
(* go-analytics-service/locust/locustfile.py: the MetricsUser traffic      *)
(* profile.  Each virtual user runs on_start once and then loops: pick a   *)
(* task from the weighted task list, execute it, sleep wait_time().        *)
(*                                                                         *)
(* Units.  Wall-clock time and delays are integers in milliseconds, so     *)
(* between(0.01, 0.1) is the range 10..100 and int(time.time()) is         *)
(* clock \div 1000.  A random.gauss(mu, sigma) draw is mu + z * sigma      *)
(* with z the standard normal variate, taken in whole standard             *)
(* deviations; random.uniform(a, b) is a + (b - a) * r with r = k/N.       *)
(***************************************************************************)
EXTENDS Integers, Sequences, FiniteSets

\* ---- bounds of the model ------------------------------------------------
\* largest |z| (in standard deviations) a gauss draw takes
ZMax == 5
\* random() takes the values 0/N, 1/N, ..., N/N with N = UniformSteps
UniformSteps == 3
\* milliseconds the wall clock moves in one clock step
ClockStep == 500
\* the wall clock stays within 0..MaxClock milliseconds
MaxClock == 1000

\* ---- constants of the program -------------------------------------------
\* wait_time = between(0.01, 0.1), in milliseconds
WaitMin == 10
WaitMax == 100
\* self.base_rps = 100.0, self.cpu_base = 50.0
BaseRps == 100
CpuBase == 50
\* the shares the task docstrings state, in percent
DocNormalPercent == 90
DocAnomalousPercent == 10

Users == {"u1", "u2"}

\* the @task methods of MetricsUser, in declaration order
Declared ==
  <<"send_normal_metric", "send_anomalous_metric", "get_analytics", "health_check">>

\* what one request attempt can end in
Failures == {"http_error", "timeout", "connection_error"}
Responses == {"ok"} \cup Failures

\* the draws of the standard normal variate, and a thinned set of them
GaussZ == (0 - ZMax)..ZMax
CoarseZ == {0 - ZMax, ZMax}

VARIABLES
  tasks,   \* MetricsUser.tasks: the task list the @task weights expand to
  pc,      \* pc[u]: where user u is in the harness's run loop
  self,    \* self[u]: the instance attributes of user u
  paced,   \* paced[u]: the delays u slept since its latest task
  clock,   \* time.time(), in milliseconds
  since,   \* since[u]: timestamp of u's latest payload, emptied when the clock steps back
  last,    \* the latest task execution: who, which task, clock read, response, draws
  sent,    \* the HTTP requests the latest task execution issued
  events   \* the request events the latest task execution fired to the harness

vars == <<tasks, pc, self, paced, clock, since, last, sent, events>>

\* ---- pure helpers --------------------------------------------------------
Range(s) == {s[i] : i \in DOMAIN s}

Count(s, x) == Cardinality({i \in DOMAIN s : s[i] = x})

RECURSIVE Repeat(_, _)
Repeat(x, n) == IF n = 0 THEN <<>> ELSE <<x>> \o Repeat(x, n - 1)

\* mutant: @task used without its weights
task_weight_flat(t) == 1

\* @task(10), @task(1), @task(1), @task(1)
task_weight(t) ==
  CASE t = "send_normal_metric" -> 10
    [] t = "send_anomalous_metric" -> 1
    [] t = "get_analytics" -> 1
    [] t = "health_check" -> 1

\* the class's task list: each declared task repeated weight times
RECURSIVE get_tasks(_)
get_tasks(decl) ==
  IF decl = <<>> THEN <<>>
  ELSE Repeat(Head(decl), task_weight(Head(decl))) \o get_tasks(Tail(decl))

\* mutant: the arguments of random.gauss swapped
gauss_swapped(mu, sigma, z) == sigma + z * mu

\* random.gauss(mu, sigma) for the variate z
gauss(mu, sigma, z) == mu + z * sigma

\* random.uniform(a, b) for random() = k / UniformSteps
uniform(a, b, k) == a + ((b - a) * k) \div UniformSteps

\* mutant: between(0.1, 1.0)
wait_time_slow(k) == uniform(WaitMax, 10 * WaitMax, k)

\* wait_time = between(0.01, 0.1)
wait_time(k) == uniform(WaitMin, WaitMax, k)

\* mutant: round(time.time())
timestamp_rounded(now) == (now + 500) \div 1000

\* int(time.time()): whole seconds of a clock value in milliseconds
timestamp(now) == now \div 1000

\* an instance with attribute k set to v
SetAttr(obj, k, v) ==
  [a \in (DOMAIN obj) \cup {k} |-> IF a = k THEN v ELSE obj[a]]

NoAttrs == [a \in {} |-> 0]
NoPayload == <<>>

\* ---- the HTTP client -----------------------------------------------------
\* self.client.request(...): one attempt, no retry.  Without catch_response
\* the response context is entered and left at once, which fires the request
\* event (with the exception of a failed attempt).  With catch_response=True
\* the response context is handed back to the caller and fires its event only
\* when the caller leaves a with-block on it.
request(u, method, path, body, catch_response, left_with_block, resp) ==
  /\ sent' = <<[user |-> u, method |-> method, path |-> path, json |-> body]>>
  /\ events' =
       IF catch_response /\ ~left_with_block THEN <<>>
       ELSE <<[user |-> u, method |-> method, name |-> path,
               failed |-> (resp \in Failures), response |-> resp]>>

\* ---- the user's methods --------------------------------------------------
\* mutant: the two baselines assigned to each other's attribute
on_start_swapped(u) ==
  /\ pc[u] = "on_start"
  /\ self' = [self EXCEPT
                ![u] = SetAttr(SetAttr(@, "base_rps", CpuBase), "cpu_base", BaseRps)]
  /\ pc' = [pc EXCEPT ![u] = "first_task"]
  /\ UNCHANGED <<tasks, paced, clock, since, last, sent, events>>

\* mutant: the baselines kept on the class, shared by every user
on_start_shared(u) ==
  /\ pc[u] = "on_start"
  /\ self' = [v \in Users |->
                SetAttr(SetAttr(self[v], "base_rps", BaseRps), "cpu_base", CpuBase)]
  /\ pc' = [pc EXCEPT ![u] = "first_task"]
  /\ UNCHANGED <<tasks, paced, clock, since, last, sent, events>>

on_start(u) ==
  /\ pc[u] = "on_start"
  /\ self' = [self EXCEPT
                ![u] = SetAttr(SetAttr(@, "base_rps", BaseRps), "cpu_base", CpuBase)]
  /\ pc' = [pc EXCEPT ![u] = "first_task"]
  /\ UNCHANGED <<tasks, paced, clock, since, last, sent, events>>

send_normal_metric(u, zc, zr, resp) ==
  LET metric == [timestamp |-> timestamp(clock),
                 cpu |-> self[u].cpu_base + gauss(0, 5, zc),
                 rps |-> self[u].base_rps + gauss(0, 10, zr)]
  IN /\ request(u, "POST", "/metrics", metric, TRUE, FALSE, resp)
     /\ last' = [user |-> u, task |-> "send_normal_metric", now |-> clock,
                 response |-> resp, draws |-> <<zc, zr>>]
     /\ since' = [since EXCEPT ![u] = <<metric.timestamp>>]
     /\ UNCHANGED self

\* mutant: the anomalous sample generated with the normal sample's rps noise
send_anomalous_metric_nospike(u, zc, zr, resp) ==
  LET metric == [timestamp |-> timestamp(clock),
                 cpu |-> self[u].cpu_base + gauss(0, 5, zc),
                 rps |-> self[u].base_rps + gauss(0, 10, zr)]
  IN /\ request(u, "POST", "/metrics", metric, TRUE, FALSE, resp)
     /\ last' = [user |-> u, task |-> "send_anomalous_metric", now |-> clock,
                 response |-> resp, draws |-> <<zc, zr>>]
     /\ since' = [since EXCEPT ![u] = <<metric.timestamp>>]
     /\ UNCHANGED self

send_anomalous_metric(u, zc, zr, resp) ==
  LET metric == [timestamp |-> timestamp(clock),
                 cpu |-> self[u].cpu_base + gauss(0, 5, zc),
                 rps |-> self[u].base_rps + gauss(150, 30, zr)]
  IN /\ request(u, "POST", "/metrics", metric, TRUE, FALSE, resp)
     /\ last' = [user |-> u, task |-> "send_anomalous_metric", now |-> clock,
                 response |-> resp, draws |-> <<zc, zr>>]
     /\ since' = [since EXCEPT ![u] = <<metric.timestamp>>]
     /\ UNCHANGED self

get_analytics(u, resp) ==
  /\ request(u, "GET", "/analyze", NoPayload, FALSE, FALSE, resp)
  /\ last' = [user |-> u, task |-> "get_analytics", now |-> clock,
              response |-> resp, draws |-> <<>>]
  /\ UNCHANGED <<self, since>>

\* mutant: the health check sent to the analytics path
health_check_analyze(u, resp) ==
  /\ request(u, "GET", "/analyze", NoPayload, FALSE, FALSE, resp)
  /\ last' = [user |-> u, task |-> "health_check", now |-> clock,
              response |-> resp, draws |-> <<>>]
  /\ UNCHANGED <<self, since>>

health_check(u, resp) ==
  /\ request(u, "GET", "/health", NoPayload, FALSE, FALSE, resp)
  /\ last' = [user |-> u, task |-> "health_check", now |-> clock,
              response |-> resp, draws |-> <<>>]
  /\ UNCHANGED <<self, since>>

\* ---- the harness's run loop ----------------------------------------------
\* one tick: a task picked from the task list is executed, then the user waits
RunTask(u, Z) ==
  /\ pc[u] \in {"first_task", "next_task"}
  /\ \E t \in Range(tasks), resp \in Responses :
       \/ /\ t = "send_normal_metric"
          /\ \E zc \in Z, zr \in Z : send_normal_metric(u, zc, zr, resp)
       \/ /\ t = "send_anomalous_metric"
          /\ \E zc \in Z, zr \in Z : send_anomalous_metric(u, zc, zr, resp)
       \/ /\ t = "get_analytics"
          /\ get_analytics(u, resp)
       \/ /\ t = "health_check"
          /\ health_check(u, resp)
  /\ pc' = [pc EXCEPT ![u] = "wait"]
  /\ paced' = [paced EXCEPT ![u] = <<>>]
  /\ UNCHANGED <<tasks, clock>>

\* self.wait(): sleep wait_time() seconds
Wait(u) ==
  /\ pc[u] = "wait"
  /\ \E k \in 0..UniformSteps :
       paced' = [paced EXCEPT ![u] = Append(@, wait_time(k))]
  /\ pc' = [pc EXCEPT ![u] = "next_task"]
  /\ UNCHANGED <<tasks, self, clock, since, last, sent, events>>

\* ---- the wall clock ------------------------------------------------------
ClockAdvance ==
  /\ clock + ClockStep <= MaxClock
  /\ clock' = clock + ClockStep
  /\ UNCHANGED <<tasks, pc, self, paced, since, last, sent, events>>

\* time.time() is not monotonic: the system clock can be set back
ClockStepBack ==
  /\ clock >= ClockStep
  /\ clock' = clock - ClockStep
  /\ since' = [u \in Users |-> <<>>]
  /\ UNCHANGED <<tasks, pc, self, paced, last, sent, events>>

\* ---- specifications ------------------------------------------------------
NoTask ==
  [user |-> "none", task |-> "none", now |-> 0, response |-> "none", draws |-> <<>>]

Init ==
  /\ tasks = get_tasks(Declared)
  /\ pc = [u \in Users |-> "on_start"]
  /\ self = [u \in Users |-> NoAttrs]
  /\ paced = [u \in Users |-> <<>>]
  /\ clock = 0
  /\ since = [u \in Users |-> <<>>]
  /\ last = NoTask
  /\ sent = <<>>
  /\ events = <<>>

Next ==
  \/ \E u \in Users : on_start(u)
  \/ \E u \in Users : RunTask(u, CoarseZ)
  \/ \E u \in Users : Wait(u)
  \/ ClockAdvance
  \/ ClockStepBack

Spec == Init /\ [][Next]_vars

\* one user alone, started, drawing every variate of GaussZ
SampleInit ==
  /\ tasks = get_tasks(Declared)
  /\ pc = [u \in Users |-> IF u = "u1" THEN "first_task" ELSE "on_start"]
  /\ self = [u \in Users |->
               IF u = "u1"
               THEN SetAttr(SetAttr(NoAttrs, "base_rps", BaseRps), "cpu_base", CpuBase)
               ELSE NoAttrs]
  /\ paced = [u \in Users |-> <<>>]
  /\ clock = 0
  /\ since = [u \in Users |-> <<>>]
  /\ last = NoTask
  /\ sent = <<>>
  /\ events = <<>>

SampleNext ==
  \/ RunTask("u1", GaussZ)
  \/ Wait("u1")

SpecSample == SampleInit /\ [][SampleNext]_vars

\* ---- the claims ----------------------------------------------------------
Ran == last.task # "none"
IsMetric(r) == r.path = "/metrics"
Abs(n) == IF n < 0 THEN 0 - n ELSE n
\* share of task t in the task list, in percent and per mille, rounded
Percent(t) == (200 * Count(tasks, t) + Len(tasks)) \div (2 * Len(tasks))
PerMille(t) == (2000 * Count(tasks, t) + Len(tasks)) \div (2 * Len(tasks))

\* C1 (state part): every body posted to /metrics has exactly the keys
\* timestamp, cpu and rps, and its timestamp is the whole seconds of the clock
\* value read when the sample was generated.
C1_PayloadShape ==
  \A i \in DOMAIN sent :
    IsMetric(sent[i]) =>
      /\ DOMAIN sent[i].json = {"timestamp", "cpu", "rps"}
      /\ sent[i].json.timestamp * 1000 <= last.now
      /\ last.now < (sent[i].json.timestamp + 1) * 1000

\* C1 (step part): a user's payload carries a timestamp no smaller than that
\* of its previous payload, when the clock did not step back in between.
C1_Successive ==
  \A u \in Users :
    ( /\ pc[u] \in {"first_task", "next_task"}
      /\ pc'[u] = "wait"
      /\ IsMetric(sent'[1])
      /\ since[u] # <<>> )
    => sent'[1].json.timestamp >= since[u][1]

\* C1: payloads have exactly the three keys, timestamp is the truncated clock
\* value at generation, and one user's successive timestamps are
\* non-decreasing while the clock does not go backwards.
C1_Timestamps == [](C1_PayloadShape) /\ [][C1_Successive]_vars

\* C1 witness: a sample generated with the clock at 0.5 s carries timestamp 0.
C1_Witness ==
  /\ last.task = "send_anomalous_metric"
  /\ last.now = 500
  /\ sent[1].json.timestamp = 0
  /\ pc[last.user] = "wait"
  /\ since[last.user] = <<0>>

\* C2: each action issues exactly one request: POST /metrics with a payload
\* for the two metric actions, GET /analyze and GET /health without one.
C2_OneRequest ==
  Ran =>
    /\ Len(sent) = 1
    /\ sent[1].user = last.user
    /\ last.task \in {"send_normal_metric", "send_anomalous_metric"} =>
         /\ sent[1].method = "POST"
         /\ sent[1].path = "/metrics"
         /\ DOMAIN sent[1].json # {}
    /\ last.task = "get_analytics" =>
         /\ sent[1].method = "GET"
         /\ sent[1].path = "/analyze"
         /\ DOMAIN sent[1].json = {}
    /\ last.task = "health_check" =>
         /\ sent[1].method = "GET"
         /\ sent[1].path = "/health"
         /\ DOMAIN sent[1].json = {}

\* C2 witness: a health check has issued its one GET /health.
C2_Witness ==
  /\ last.task = "health_check"
  /\ Len(sent) = 1
  /\ sent[1].path = "/health"
  /\ sent[1].method = "GET"

\* C3: the task list has 13 slots, 10 of them the normal metric and one each
\* for the other three actions (769 / 77 / 77 / 77 per mille), and a tick
\* executes exactly one action, taken from that list.
C3_Weights ==
  /\ Len(tasks) = 13
  /\ Count(tasks, "send_normal_metric") = 10
  /\ Count(tasks, "send_anomalous_metric") = 1
  /\ Count(tasks, "get_analytics") = 1
  /\ Count(tasks, "health_check") = 1
  /\ PerMille("send_normal_metric") = 769
  /\ PerMille("send_anomalous_metric") = 77
  /\ PerMille("get_analytics") = 77
  /\ PerMille("health_check") = 77
  /\ Ran => last.task \in Range(tasks) /\ Len(sent) = 1

\* C3 witness: a tick has executed the normal-metric action.
C3_Witness ==
  /\ last.task = "send_normal_metric"
  /\ pc[last.user] = "wait"
  /\ Len(sent) = 1

\* C4: once on_start has run, cpu_base = 50 and base_rps = 100 in every
\* state, whatever actions follow; the user has no other attribute.
C4_Baselines ==
  \A u \in Users :
    /\ pc[u] = "on_start" => DOMAIN self[u] = {}
    /\ pc[u] # "on_start" =>
         /\ DOMAIN self[u] = {"base_rps", "cpu_base"}
         /\ self[u].cpu_base = 50
         /\ self[u].base_rps = 100

\* C4 witness: a user that executed an anomalous metric and waited still has
\* its baselines.
C4_Witness ==
  /\ last.task = "send_anomalous_metric"
  /\ pc[last.user] = "next_task"
  /\ self[last.user].cpu_base = 50
  /\ self[last.user].base_rps = 100

\* C5: a failed request gives exactly one request attempt and exactly one
\* failure event fired to the harness, for every action.
C5_FailureReported ==
  (Ran /\ last.response \in Failures) =>
    /\ Len(sent) = 1
    /\ Len(events) = 1
    /\ events[1].failed

\* C6 (step part): a step leaves alone the attributes and the pacing of every
\* user that is not the one taking it.
C6_Frame ==
  \A u \in Users :
    pc'[u] = pc[u] => (self'[u] = self[u] /\ paced'[u] = paced[u])

\* C6 (state part): a payload is computed from the sending user's own
\* baselines.
C6_OwnState ==
  (Ran /\ IsMetric(sent[1])) =>
    /\ sent[1].user = last.user
    /\ sent[1].json.cpu = self[last.user].cpu_base + 5 * last.draws[1]

\* C6: no state is shared between users: under any interleaving a step of
\* one user changes no other user's state and its payload depends on its
\* own baselines only.
C6_NoSharing == [](C6_OwnState) /\ [][C6_Frame]_vars

\* C6 witness: u1 has sent a metric while u2 has not started and has no
\* attributes yet.
C6_Witness ==
  /\ last.user = "u1"
  /\ IsMetric(sent[1])
  /\ pc["u2"] = "on_start"
  /\ DOMAIN self["u2"] = {}
  /\ DOMAIN self["u1"] = {"base_rps", "cpu_base"}

\* C7: between two consecutive actions of a user there is exactly one
\* delay, and it lies in 10..100 ms, for every user.
C7_Pacing ==
  \A u \in Users :
    /\ pc[u] = "next_task" =>
         /\ Len(paced[u]) = 1
         /\ paced[u][1] >= 10
         /\ paced[u][1] <= 100
    /\ pc[u] # "next_task" => paced[u] = <<>>

\* C7 witness: both ends of the range are drawn, by different users.
C7_Witness ==
  /\ pc["u1"] = "next_task"
  /\ pc["u2"] = "next_task"
  /\ paced["u1"] = <<10>>
  /\ paced["u2"] = <<100>>

\* C8 as stated: a normal sample always has cpu in [30, 70] and rps in
\* [60, 140].
C8_AlwaysWithin4Sigma ==
  last.task = "send_normal_metric" =>
    /\ sent[1].json.cpu >= 30
    /\ sent[1].json.cpu <= 70
    /\ sent[1].json.rps >= 60
    /\ sent[1].json.rps <= 140

\* C8 amended: a normal sample has cpu in [30, 70] exactly when its cpu noise
\* variate is within 4 standard deviations, and rps in [60, 140] exactly when
\* its rps noise variate is.
C8_Within4SigmaIffDraw ==
  last.task = "send_normal_metric" =>
    /\ (sent[1].json.cpu >= 30 /\ sent[1].json.cpu <= 70) <=> (Abs(last.draws[1]) <= 4)
    /\ (sent[1].json.rps >= 60 /\ sent[1].json.rps <= 140) <=> (Abs(last.draws[2]) <= 4)

\* C8 witness: the variates 4 and -4 give cpu = 70 and rps = 60, the ends of
\* the intervals.
C8_Witness ==
  /\ last.task = "send_normal_metric"
  /\ last.draws = <<4, 0 - 4>>
  /\ sent[1].json.cpu = 70
  /\ sent[1].json.rps = 60

\* C9: normal metrics are 90% and anomalous metrics 10% of the traffic the
\* task weights produce.
C9_DocstringShares ==
  /\ Percent("send_normal_metric") = DocNormalPercent
  /\ Percent("send_anomalous_metric") = DocAnomalousPercent

\* C10: cpu = cpu_base + N(0, 5) in both samples; rps = base_rps + N(0, 10)
\* in the normal and base_rps + N(150, 30) in the anomalous sample; each
\* field has its own draw.
C10_Distributions ==
  /\ last.task = "send_normal_metric" =>
       /\ Len(last.draws) = 2
       /\ sent[1].json.cpu = self[last.user].cpu_base + 5 * last.draws[1]
       /\ sent[1].json.rps = self[last.user].base_rps + 10 * last.draws[2]
  /\ last.task = "send_anomalous_metric" =>
       /\ Len(last.draws) = 2
       /\ sent[1].json.cpu = self[last.user].cpu_base + 5 * last.draws[1]
       /\ sent[1].json.rps = self[last.user].base_rps + 150 + 30 * last.draws[2]

\* C10 witness: an anomalous sample whose two fields took different draws
\* (-2 for cpu, 3 for rps).
C10_Witness ==
  /\ last.task = "send_anomalous_metric"
  /\ last.draws = <<0 - 2, 3>>
  /\ sent[1].json.cpu = 40
  /\ sent[1].json.rps = 340

====
